---- MODULE Spec2Model ----
(***************************************************************************)
(* Job orchestration of the video generator: the GenerationWorker (queue,  *)
(* worker loop, status writes, cancellation), the generation_jobs table of *)
(* DatabaseClient, and the provider routing of UnifiedVideoClient.         *)
(***************************************************************************)
EXTENDS FiniteSets, Integers, Sequences, TLC

(***************************************************************************)
(* Bounds of the model.                                                    *)
(***************************************************************************)
MaxJobs == 2
\* cancel_job calls in one run
MaxCancels == 1
\* Redis commands and statements of the job store that raise in one run
MaxFaults == 1
\* queue_generation_job calls that wait for their lpush at the same time
MaxPending == 1
\* start_worker loops that are live at the same time
MaxLoops == 2
\* direct generate_video calls that are in flight at the same time
MaxCalls == 2

(***************************************************************************)
(* Python None / SQL NULL.  An integer column that is NULL is NullInt.     *)
(***************************************************************************)
NoValue == "None"
NullInt == 0 - 1

JobIds == 1..MaxJobs
Loops == 1..MaxLoops
Calls == 1..MaxCalls

Truthy(s) == s # NoValue /\ s # ""

(***************************************************************************)
(* Job descriptors as queue_generation_job builds them.  parameters is a   *)
(* dict: keys is its key set, provider the value under "provider".         *)
(***************************************************************************)
EmptyParameters == [keys |-> {}, provider |-> NoValue]
DurationOnly == [keys |-> {"duration"}, provider |-> NoValue]
ApiParameters(provider) == [keys |-> {"provider", "quality", "duration"}, provider |-> provider]

\* submissions: a direct call with a duration hint, the map the HTTP endpoint
\* builds (core_api.py lines 219-223), and a job type the worker does not know
ParameterMaps == {DurationOnly, ApiParameters(NoValue)}

JobInputs ==
    {[type |-> "video", parameters |-> p] : p \in ParameterMaps}
        \cup {[type |-> "image", parameters |-> EmptyParameters]}

NoJob == [id |-> 0, type |-> NoValue, parameters |-> EmptyParameters]

job_data(job_id, input) == [id |-> job_id, type |-> input.type, parameters |-> input.parameters]

\* dict.get(key, default) on the parameters map
params_get(parameters, key, default) ==
    IF key \in parameters.keys
        THEN (IF key = "provider" THEN parameters.provider ELSE key)
        ELSE default

\* json.dumps / json.loads of a job descriptor on its way through Redis
json_dumps(job) == <<"json", job.id, job.type, job.parameters.keys, job.parameters.provider>>
json_loads(s) == [id |-> s[2], type |-> s[3], parameters |-> [keys |-> s[4], provider |-> s[5]]]

(***************************************************************************)
(* Provider adapters.                                                      *)
(***************************************************************************)
fallback_order == <<"velo", "sora">>
\* insertion order of self.providers in _initialize_providers
registration_order == <<"sora", "velo">>
AllProviders == {"velo", "sora"}

\* what session.post of _call_velo_api does, as the code tells the cases apart:
\* a status other than 2xx, an httpx.RequestError, an exception that is not an
\* httpx.RequestError, a 2xx body that is not JSON, and the JSON bodies: an
\* inline video, an operation handle, a body with a URL field (holding a URL,
\* an empty string or null) and a body with none of these
VeloResponses == {"http_error", "network_error", "transport_error", "not_json",
                  "predictions_video", "operation", "legacy_url", "legacy_empty_url",
                  "legacy_null_url", "candidates_no_uri", "unrecognized"}
\* a call of the Velo adapter is made with a script that holds no prompt (no
\* request is sent) or meets one of the responses
VeloCalls == VeloResponses \cup {"no_prompts"}
ClientOutcomes == VeloCalls \cup {"mock", "raise"}

NoResult ==
    [keys |-> {}, success |-> FALSE, video_url |-> NoValue, error |-> NoValue,
     provider |-> NoValue, selected_provider |-> NoValue, fallback_used |-> FALSE,
     provider_selection_reason |-> NoValue, attempted_providers |-> <<>>]

SuccessUrl(provider, url) ==
    [NoResult EXCEPT !.keys = {"success", "video_id", "video_url", "provider"},
                     !.success = TRUE, !.video_url = url, !.provider = provider]

Failure(provider, error) ==
    [NoResult EXCEPT !.keys = {"success", "error", "provider"},
                     !.error = error, !.provider = provider]

SoraClient_generate_video ==
    SuccessUrl("sora", "https://mock-openai-sora.com/videos/mock_sora.mp4")

_generate_mock_video ==
    SuccessUrl("velo", "https://mock-velo-storage.googleapis.com/mock_velo.mp4")

\* an exception that leaves a function, with str(e)
Raised(message) == [NoResult EXCEPT !.keys = {"raised"}, !.error = message]

\* the result of _call_velo_api, or the exception that leaves it: its except
\* clause catches httpx.RequestError only
_call_velo_api(response) ==
    CASE response = "http_error" -> Failure("velo", "Velo API error (500): backend error")
      [] response = "network_error" -> Failure("velo", "Network error: connection refused")
      [] response = "transport_error" -> Raised("socket closed")
      [] response = "not_json" -> Raised("Expecting value: line 1 column 1 (char 0)")
      [] response = "predictions_video" ->
            [NoResult EXCEPT !.keys = {"success", "video_id", "video_path", "provider"},
                             !.success = TRUE, !.provider = "velo"]
      [] response = "operation" ->
            [NoResult EXCEPT !.keys = {"success", "status", "operation_id", "provider"},
                             !.success = TRUE, !.provider = "velo"]
      [] response = "legacy_url" -> SuccessUrl("velo", "https://veo.example/video.mp4")
      [] response = "legacy_empty_url" -> SuccessUrl("velo", "")
      [] response = "legacy_null_url" -> SuccessUrl("velo", NoValue)
      \* a candidates part whose fileData has no fileUri: .get("fileUri", "")
      [] response = "candidates_no_uri" -> SuccessUrl("velo", "")
      [] response = "unrecognized" ->
            SuccessUrl("velo", "https://storage.googleapis.com/velo-generated-videos/id.mp4")

\* call is what the call meets (VeloCalls)
VeloClient_generate_video(api_key, call) ==
    IF ~api_key THEN _generate_mock_video
    ELSE IF call = "no_prompts" THEN Failure("velo", "No valid prompts found in script")
    ELSE LET r == _call_velo_api(call)
         IN IF "raised" \in r.keys
                THEN Failure("velo", "Velo generation failed: " \o r.error)
                ELSE r

\* what one call of providers[p].generate_video yields; "raise" is an exception
client_raises(p, outcome) == outcome[p] = "raise"
\* str(e) of the exception a raising client throws
client_exception(p) == p \o " client raised"
client_generate_video(p, api_key, outcome) ==
    IF p = "sora" THEN SoraClient_generate_video
    ELSE VeloClient_generate_video(api_key, outcome[p])

(***************************************************************************)
(* UnifiedVideoClient: provider selection and fallback.                    *)
(***************************************************************************)
RECURSIVE FirstWith(_, _, _)
FirstWith(order, i, ok) ==
    IF i > Len(order) THEN NoValue
    ELSE IF order[i] \in ok THEN order[i]
    ELSE FirstWith(order, i + 1, ok)

_select_provider(providers, preferred_provider, api_key, requested_provider) ==
    IF Truthy(requested_provider) /\ requested_provider \in providers
        THEN requested_provider
    ELSE IF preferred_provider # "auto" /\ preferred_provider \in providers
        THEN preferred_provider
    ELSE LET auto == FirstWith(fallback_order, 1,
                        {p \in providers : (p = "velo" /\ api_key) \/ p = "sora"})
         IN IF auto # NoValue THEN auto
            ELSE FirstWith(registration_order, 1, providers)

_get_selection_reason(preferred_provider, selected, requested) ==
    IF Truthy(requested) /\ requested = selected THEN "User requested " \o selected
    ELSE IF Truthy(requested)
        THEN "User requested " \o requested \o " but " \o selected
                \o " was selected due to availability"
    ELSE IF preferred_provider = selected THEN "Preferred provider " \o selected
    ELSE "Auto-selected " \o selected \o " based on availability"

RECURSIVE SelectSeqIn(_, _, _)
SelectSeqIn(order, i, ok) ==
    IF i > Len(order) THEN <<>>
    ELSE (IF order[i] \in ok THEN <<order[i]>> ELSE <<>>) \o SelectSeqIn(order, i + 1, ok)

RECURSIVE FallbackLoop(_, _, _, _, _, _)
FallbackLoop(remaining, i, all, failed_provider, api_key, outcome) ==
    IF i > Len(remaining)
        THEN [NoResult EXCEPT !.keys = {"success", "error", "attempted_providers"},
                              !.error = "All providers failed. Last error from "
                                            \o failed_provider,
                              !.attempted_providers = <<failed_provider>> \o all]
    ELSE LET p == remaining[i]
             r == client_generate_video(p, api_key, outcome)
         IN IF ~client_raises(p, outcome) /\ r.success
                THEN [r EXCEPT !.keys = @ \cup {"fallback_used", "original_provider",
                                                "selected_provider",
                                                "provider_selection_reason"},
                               !.fallback_used = TRUE,
                               !.selected_provider = p,
                               !.provider_selection_reason =
                                    "Fallback to " \o p \o " after "
                                        \o failed_provider \o " failed"]
                ELSE FallbackLoop(remaining, i + 1, all, failed_provider, api_key, outcome)

_try_fallback(providers, failed_provider, api_key, outcome) ==
    LET remaining_providers ==
            SelectSeqIn(fallback_order, 1, providers \ {failed_provider})
    IN FallbackLoop(remaining_providers, 1, remaining_providers,
                    failed_provider, api_key, outcome)

\* generate_video that falls back to the other providers also when the caller
\* named the provider
generate_video_always_fallback(providers, preferred_provider, api_key, provider, outcome) ==
    LET selected_provider == _select_provider(providers, preferred_provider, api_key, provider)
    IN IF selected_provider = NoValue
        THEN [NoResult EXCEPT !.keys = {"success", "error", "available_providers"},
                              !.error = "No video generation providers available"]
       ELSE IF client_raises(selected_provider, outcome)
        THEN IF Cardinality(providers) > 1
                THEN _try_fallback(providers, selected_provider, api_key, outcome)
                ELSE Failure(selected_provider,
                             "Video generation failed: " \o client_exception(selected_provider))
       ELSE LET r == client_generate_video(selected_provider, api_key, outcome)
            IN [r EXCEPT !.keys = @ \cup {"unified_client_version", "selected_provider",
                                          "provider_selection_reason"},
                         !.selected_provider = selected_provider,
                         !.provider_selection_reason =
                            _get_selection_reason(preferred_provider, selected_provider,
                                                  provider)]

generate_video(providers, preferred_provider, api_key, provider, outcome) ==
    LET selected_provider == _select_provider(providers, preferred_provider, api_key, provider)
    IN IF selected_provider = NoValue
        THEN [NoResult EXCEPT !.keys = {"success", "error", "available_providers"},
                              !.error = "No video generation providers available"]
       ELSE IF client_raises(selected_provider, outcome)
        THEN IF provider = NoValue /\ Cardinality(providers) > 1
                THEN _try_fallback(providers, selected_provider, api_key, outcome)
                ELSE Failure(selected_provider,
                             "Video generation failed: " \o client_exception(selected_provider))
       ELSE LET r == client_generate_video(selected_provider, api_key, outcome)
            IN [r EXCEPT !.keys = @ \cup {"unified_client_version", "selected_provider",
                                          "provider_selection_reason"},
                         !.selected_provider = selected_provider,
                         !.provider_selection_reason =
                            _get_selection_reason(preferred_provider, selected_provider,
                                                  provider)]

\* the providers whose generate_video _try_fallback invokes, in order: the loop
\* stops after the first that returns success
RECURSIVE FallbackCalls(_, _, _, _)
FallbackCalls(remaining, i, api_key, outcome) ==
    IF i > Len(remaining) THEN <<>>
    ELSE LET p == remaining[i]
         IN IF ~client_raises(p, outcome) /\ client_generate_video(p, api_key, outcome).success
                THEN <<p>>
                ELSE <<p>> \o FallbackCalls(remaining, i + 1, api_key, outcome)

\* the providers whose generate_video one call of UnifiedVideoClient.generate_video
\* invokes, in order
generate_video_calls(providers, preferred_provider, api_key, provider, outcome) ==
    LET selected_provider == _select_provider(providers, preferred_provider, api_key, provider)
    IN IF selected_provider = NoValue THEN <<>>
       ELSE IF /\ client_raises(selected_provider, outcome)
               /\ provider = NoValue
               /\ Cardinality(providers) > 1
        THEN <<selected_provider>>
                \o FallbackCalls(SelectSeqIn(fallback_order, 1, providers \ {selected_provider}),
                                 1, api_key, outcome)
       ELSE <<selected_provider>>

(***************************************************************************)
(* check_veo_operation.check_operation_status: the two forms of a handle.  *)
(***************************************************************************)
\* sub in s
Contains(s, sub) ==
    \E i \in 1..(Len(s) - Len(sub) + 1) : SubSeq(s, i, i + Len(sub) - 1) = sub
\* s.startswith(prefix), s.endswith(suffix)
StartsWith(s, prefix) == Len(prefix) <= Len(s) /\ SubSeq(s, 1, Len(prefix)) = prefix
EndsWith(s, suffix) ==
    Len(suffix) <= Len(s) /\ SubSeq(s, Len(s) - Len(suffix) + 1, Len(s)) = suffix
\* str.split scans from the left and goes on behind each separator it has found,
\* so separators that overlap one found before are not seen: i is the position
\* of the scan, start the beginning of the piece being read
RECURSIVE SplitFrom(_, _, _, _)
SplitFrom(s, sep, i, start) ==
    IF i + Len(sep) - 1 > Len(s) THEN SubSeq(s, start, Len(s))
    ELSE IF SubSeq(s, i, i + Len(sep) - 1) = sep
        THEN SplitFrom(s, sep, i + Len(sep), i + Len(sep))
    ELSE SplitFrom(s, sep, i + 1, start)

\* s.split(sep)[-1]: the last piece
SplitLast(s, sep) == SplitFrom(s, sep, 1, 1)

\* os.getenv("VEO_MODEL", "veo-3.1-generate-preview")
model_name == "veo-3.1-generate-preview"

\* line 72 with the identity in place of the split: the handle is sent as given
operation_name_as_given(operation_id) == operation_id

\* line 72: the short form of the handle
operation_name(operation_id) ==
    IF Contains(operation_id, "/operations/")
        THEN SplitLast(operation_id, "/operations/")
        ELSE operation_id

\* line 73: the qualified form of the handle
full_operation_path(operation_id) ==
    IF StartsWith(operation_id, "projects/") THEN operation_id
    ELSE "projects/your-project-id/locations/us-central1/publishers/google/models/"
            \o model_name \o "/operations/" \o operation_id

(***************************************************************************)
(* DatabaseClient: the generation_jobs table.                              *)
(***************************************************************************)
NoRecord ==
    [exists |-> FALSE, status |-> NoValue, progress |-> NullInt, current_step |-> NoValue,
     result_url |-> NoValue, error_message |-> NoValue, worker_id |-> NoValue]

\* an updates dict; a field that is NoValue / NullInt, and a result_data without
\* keys, is a key the dict does not hold
Updates(status, progress, current_step, worker_id, result_url, result_data, error_message) ==
    [status |-> status, progress |-> progress, current_step |-> current_step,
     worker_id |-> worker_id, result_url |-> result_url, result_data |-> result_data,
     error_message |-> error_message]

\* cursor.execute(query, values): every value but persona_ids and parameters is
\* passed as it is, and the driver has no adaptation for a dict, so an updates
\* dict that holds result_data makes the statement raise
execute_raises(updates) == updates.result_data.keys # {}

\* INSERT INTO generation_jobs (id, type, persona_ids, prompt, parameters, status, created_at)
create_generation_job(st, job, db_ok) ==
    IF db_ok THEN [st EXCEPT ![job.id] = [NoRecord EXCEPT !.exists = TRUE, !.status = "queued"]]
    ELSE st

\* UPDATE generation_jobs SET <every key of updates> WHERE id = job_id
update_generation_job(st, job_id, updates, db_ok) ==
    IF db_ok /\ ~execute_raises(updates) /\ st[job_id].exists
        THEN [st EXCEPT ![job_id] =
                [exists |-> TRUE,
                 status |-> IF updates.status = NoValue THEN @.status ELSE updates.status,
                 progress |-> IF updates.progress = NullInt THEN @.progress
                              ELSE updates.progress,
                 current_step |-> IF updates.current_step = NoValue THEN @.current_step
                                  ELSE updates.current_step,
                 result_url |-> IF updates.result_url = NoValue THEN @.result_url
                                ELSE updates.result_url,
                 error_message |-> IF updates.error_message = NoValue THEN @.error_message
                                   ELSE updates.error_message,
                 worker_id |-> IF updates.worker_id = NoValue THEN @.worker_id
                               ELSE updates.worker_id]]
        ELSE st

(***************************************************************************)
(* State.                                                                  *)
(***************************************************************************)
VARIABLES
    redis_client,   \* a Redis client is configured
    db_client,      \* a job store is configured
    velo_api_key,   \* the Velo adapter holds a credential
    providers,      \* names registered in UnifiedVideoClient.providers
    preferred_provider,
    r_frames,       \* per direct generate_video call in flight: its argument, what
                    \* _select_provider returned and the adapters it has invoked
    r_requested,    \* provider argument of the direct generate_video call that has
                    \* returned last; these five are empty once another call is made
    r_outcome,      \* what each adapter does when that call invokes it
    r_selected,     \* what _select_provider returned in that call
    r_calls,        \* adapters invoked in that call, in order
    r_result,       \* result of that call
    r_prev,         \* argument, selection and failure of the call that returned before it
    access_token,   \* GOOGLE_ACCESS_TOKEN is set
    resolves,       \* the forms of a handle the Veo endpoint resolves
    p_operation_id, \* argument of the check_operation_status call
    p_pc,           \* position of that call
    p_requests,     \* operationName of each status request it sent
    p_responses,    \* the response to each
    p_result,       \* what it returned
    store,          \* generation_jobs: job id -> row
    job_queue,      \* process-local list of job descriptors
    redis_list,     \* the Redis list "generation_queue", head first
    next_id,        \* next fresh job id (uuid4)
    returned,       \* job ids queue_generation_job has returned
    pending,        \* queue_generation_job calls suspended at await lpush
    returned_before, \* per job: the ids returned before its call started
    is_running,
    wpc,            \* per start_worker loop: its position in start_worker / _process_job
    cur,            \* per loop: the job it processes, until it goes on to its next iteration
    result,         \* per loop: result of the provider call of that job (a local of
                    \* _process_job)
    wlog,           \* per loop: _update_job_status calls of its current processing attempt,
                    \* kept until the loop goes on to its next iteration
    delivered,      \* job ids in the order _get_next_job returned them
    cancelInfo,     \* per job: the cancel_job calls made and what the last one returned
    faults          \* Redis commands and job store statements that have raised so far

vars == <<redis_client, db_client, velo_api_key, providers, preferred_provider,
          r_frames, r_requested, r_outcome, r_selected, r_calls, r_result, r_prev,
          access_token, resolves, p_operation_id, p_pc, p_requests, p_responses, p_result,
          store, job_queue, redis_list, next_id,
          returned, pending, returned_before, is_running, wpc, cur, result, wlog, delivered, cancelInfo,
          faults>>

config == <<redis_client, db_client, velo_api_key, providers, preferred_provider>>
routerVars == <<r_frames, r_requested, r_outcome, r_selected, r_calls, r_result, r_prev>>
pollConfig == <<access_token, resolves>>
pollVars == <<p_operation_id, p_pc, p_requests, p_responses, p_result>>
\* what the worker and the queue never touch
clientVars == <<routerVars, pollConfig, pollVars>>
queueVars == <<job_queue, redis_list>>
submitVars == <<next_id, returned, pending, returned_before>>
workerVars == <<is_running, wpc, cur, result, wlog, delivered>>

WORKER_ID == "worker-1"

(***************************************************************************)
(* The event loop: one task runs at a time and keeps running until it      *)
(* awaits something that suspends it (brpop, lpush, asyncio.sleep, the     *)
(* provider call).  The job store is called without suspending.            *)
(***************************************************************************)
\* generate_video(script=..., provider=..., quality=..., **parameters): a key of
\* parameters that repeats a keyword of the call is a TypeError
DuplicateKeyword(parameters) ==
    parameters.keys \cap {"script", "provider", "quality"} # {}

\* loop l is not started, has ended, or is suspended in an await
Suspended(l) ==
    \/ wpc[l] \in {"init", "brpop", "sleeping", "stopped"}
    \/ wpc[l] = "generating" /\ ~DuplicateKeyword(cur[l].parameters)

AllSuspended == \A m \in Loops : Suspended(m)
OthersSuspended(l) == \A m \in Loops \ {l} : Suspended(m)

\* loop l is at position pos and it is its turn to run
Runs(l, pos) == wpc[l] = pos /\ OthersSuspended(l)

NoCancel == [calls |-> 0, ret |-> FALSE, queued |-> FALSE]

NoOutcome == [p \in AllProviders |-> NoValue]
NoPrev == [requested |-> NoValue, selected |-> NoValue, failed |-> FALSE, called |-> FALSE]

\* a call slot that holds no call
NoFrame == [pc |-> "idle", requested |-> NoValue, selected |-> NoValue, invoked |-> 0]

\* no direct generate_video call has been made
RouterIdle ==
    /\ r_frames = [c \in Calls |-> NoFrame]
    /\ r_requested = NoValue
    /\ r_outcome = NoOutcome
    /\ r_selected = NoValue
    /\ r_calls = <<>>
    /\ r_result = NoResult
    /\ r_prev = NoPrev

\* no check_operation_status call has been made
PollIdle ==
    /\ p_operation_id = NoValue
    /\ p_pc = "idle"
    /\ p_requests = <<>>
    /\ p_responses = <<>>
    /\ p_result = NoValue

Init ==
    /\ redis_client \in BOOLEAN
    /\ db_client = TRUE
    /\ velo_api_key = TRUE
    /\ providers = AllProviders
    /\ preferred_provider = "auto"
    /\ RouterIdle
    /\ access_token = TRUE
    /\ resolves = "both"
    /\ PollIdle
    /\ store = [j \in JobIds |-> NoRecord]
    /\ job_queue = <<>>
    /\ redis_list = <<>>
    /\ next_id = 1
    /\ returned = {}
    /\ pending = {}
    /\ returned_before = [j \in JobIds |-> {}]
    /\ is_running = FALSE
    /\ wpc = [l \in Loops |-> "init"]
    /\ cur = [l \in Loops |-> NoJob]
    /\ result = [l \in Loops |-> NoResult]
    /\ wlog = [l \in Loops |-> <<>>]
    /\ delivered = <<>>
    /\ cancelInfo = [j \in JobIds |-> NoCancel]
    /\ faults = 0

SeqIds(q) == {q[i].id : i \in 1..Len(q)}
RedisIds == {json_loads(redis_list[i]).id : i \in 1..Len(redis_list)}
QueuedIds == SeqIds(job_queue) \cup RedisIds
DeliveredIds == {delivered[i] : i \in 1..Len(delivered)}

(***************************************************************************)
(* The Redis server: a command succeeds or raises; a command that raises   *)
(* may have taken effect on the list before the error came back.           *)
(***************************************************************************)
PushOutcomes == {"ok", "error", "error_applied"}
PopOutcomes == {"ok", "error", "error_applied"}

\* the Redis list after a brpop
AfterPop(pop) ==
    IF redis_client /\ pop \in {"ok", "error_applied"} /\ redis_list # <<>>
        THEN SubSeq(redis_list, 1, Len(redis_list) - 1)
        ELSE redis_list

\* outcomes the environment may produce: a Redis command answers "ok" or raises,
\* a statement of the job store succeeds (db_ok) or raises
FaultsOf(db_ok, outcome) == (IF db_ok THEN 0 ELSE 1) + (IF outcome = "ok" THEN 0 ELSE 1)
MayFault(db_ok, outcome) ==
    /\ faults + FaultsOf(db_ok, outcome) <= MaxFaults
    /\ redis_client \/ outcome = "ok"

(***************************************************************************)
(* GenerationWorker.queue_generation_job.                                  *)
(***************************************************************************)
\* the Redis list after redis_client.lpush(job); push is what the command did
lpush(job, push) ==
    IF redis_client /\ push \in {"ok", "error_applied"}
        THEN <<json_dumps(job)>> \o redis_list
        ELSE redis_list

\* the process-local list after _add_to_queue(job), q being the list when lpush
\* has answered
_add_to_queue(q, job, push) ==
    IF redis_client
        THEN IF push = "ok" THEN q ELSE Append(q, job)
        ELSE Append(q, job)

\* fresh id, job_data, create_generation_job (its error is swallowed), then
\* _add_to_queue. Without a Redis client nothing in the call suspends and it
\* returns job_id in the same step; with one, the call sends lpush and suspends
\* until the answer is back, and the rest of the process runs meanwhile.
QueueGenerationJob(input, db_ok, push) ==
    /\ next_id <= MaxJobs
    /\ AllSuspended
    /\ Cardinality(pending) < MaxPending
    /\ MayFault(db_ok, push)
    /\ LET job == job_data(next_id, input)
       IN /\ store' = IF db_client THEN create_generation_job(store, job, db_ok) ELSE store
          /\ redis_list' = lpush(job, push)
          /\ IF redis_client
                THEN /\ pending' = pending \cup {[job |-> job, push |-> push]}
                     /\ UNCHANGED <<job_queue, returned>>
                ELSE /\ job_queue' = _add_to_queue(job_queue, job, push)
                     /\ returned' = returned \cup {next_id}
                     /\ UNCHANGED pending
    /\ next_id' = next_id + 1
    /\ returned_before' = [returned_before EXCEPT ![next_id] = returned]
    /\ faults' = faults + FaultsOf(db_ok, push)
    /\ UNCHANGED <<config, clientVars, workerVars, cancelInfo>>

\* the answer of lpush is back: lines 193-201 of _add_to_queue, then return job_id
QueueGenerationJobReturns ==
    /\ AllSuspended
    /\ \E s \in pending :
        /\ job_queue' = _add_to_queue(job_queue, s.job, s.push)
        /\ returned' = returned \cup {s.job.id}
        /\ pending' = pending \ {s}
    /\ UNCHANGED <<config, clientVars, store, redis_list, next_id, returned_before,
                   workerVars, cancelInfo, faults>>

(***************************************************************************)
(* GenerationWorker: status writes.                                        *)
(***************************************************************************)
\* the updates dict _update_job_status builds (lines 227-242)
StatusUpdates(status, progress, current_step, result_url, result_data, error_message) ==
    Updates(status, progress, current_step, WORKER_ID,
            IF Truthy(result_url) THEN result_url ELSE NoValue,
            result_data,
            IF Truthy(error_message) THEN error_message ELSE NoValue)

\* the store after _update_job_status; an error of the store is swallowed
_update_job_status(st, job_id, status, progress, current_step, result_url, result_data, error_message, db_ok) ==
    IF db_client
        THEN update_generation_job(st, job_id,
                StatusUpdates(status, progress, current_step, result_url, result_data,
                              error_message),
                db_ok)
        ELSE st

LogEntry(job_id, status, progress, result_url, error_message) ==
    [job |-> job_id, status |-> status, progress |-> progress,
     result_url |-> IF Truthy(result_url) THEN result_url ELSE NoValue,
     error_message |-> IF Truthy(error_message) THEN error_message ELSE NoValue]

\* one awaited _update_job_status call of loop l for the job it holds
Write(l, status, progress, current_step, result_url, result_data, error_message, db_ok) ==
    /\ store' = _update_job_status(store, cur[l].id, status, progress, current_step,
                                   result_url, result_data, error_message, db_ok)
    /\ wlog' = [wlog EXCEPT ![l] =
                    Append(@, LogEntry(cur[l].id, status, progress, result_url, error_message))]
    /\ MayFault(db_ok, "ok")
    /\ faults' = faults + FaultsOf(db_ok, "ok")

(***************************************************************************)
(* GenerationWorker: start_worker, stop_worker, _get_next_job.             *)
(***************************************************************************)
\* the slot a new start_worker call takes: the first one without a live loop
FreeLoop(l) ==
    /\ wpc[l] \in {"init", "stopped"}
    /\ \A m \in Loops : m < l => wpc[m] \notin {"init", "stopped"}

\* lines 24-27: a call of start_worker sets is_running and enters the loop; the
\* code has no guard against a call while a loop is live or after one has ended
StartWorker(l) ==
    /\ FreeLoop(l)
    /\ AllSuspended
    /\ is_running' = TRUE
    /\ wpc' = [wpc EXCEPT ![l] = "loop"]
    /\ UNCHANGED <<config, clientVars, store, queueVars, submitVars, cur, result, wlog, delivered,
                   cancelInfo, faults>>

StopWorker ==
    /\ is_running
    /\ AllSuspended
    /\ is_running' = FALSE
    /\ UNCHANGED <<config, clientVars, store, queueVars, submitVars, wpc, cur, result, wlog, delivered,
                   cancelInfo, faults>>

\* while self.is_running: the loop condition found false
LoopExit(l) ==
    /\ Runs(l, "loop")
    /\ ~is_running
    /\ wpc' = [wpc EXCEPT ![l] = "stopped"]
    /\ cur' = [cur EXCEPT ![l] = NoJob]
    /\ wlog' = [wlog EXCEPT ![l] = <<>>]
    /\ UNCHANGED <<config, clientVars, store, queueVars, submitVars, is_running, result,
                   delivered, cancelInfo, faults>>

\* lines 27-30, 100, 207 with a Redis client: the loop condition found true, brpop
\* is sent and the loop waits for its answer (up to the timeout of brpop)
SendBrpop(l) ==
    /\ Runs(l, "loop")
    /\ is_running
    /\ redis_client
    /\ wpc' = [wpc EXCEPT ![l] = "brpop"]
    /\ cur' = [cur EXCEPT ![l] = NoJob]
    /\ wlog' = [wlog EXCEPT ![l] = <<>>]
    /\ UNCHANGED <<config, clientVars, store, queueVars, submitVars, is_running, result,
                   delivered, cancelInfo, faults>>

\* loop l is where _get_next_job gives its answer: with a Redis client when
\* brpop answers, without one in the iteration that found the loop condition true
AtGetNextJob(l) ==
    IF redis_client THEN Runs(l, "brpop") ELSE Runs(l, "loop") /\ is_running

\* <<job or NoJob, job_queue, redis_list>> after _get_next_job; pop is what brpop
\* did: _get_from_redis_queue returns None when brpop raises
_get_next_job(pop) ==
    IF redis_client /\ pop = "ok" /\ redis_list # <<>>
        THEN <<json_loads(redis_list[Len(redis_list)]), job_queue, AfterPop(pop)>>
    ELSE IF job_queue # <<>>
        THEN <<Head(job_queue), Tail(job_queue), AfterPop(pop)>>
    ELSE <<NoJob, job_queue, AfterPop(pop)>>

\* a loop that fetches the next job without awaiting _process_job of the current one
GetNextJob_concurrent(l, pop) ==
    /\ OthersSuspended(l)
    /\ wpc[l] \in {"loop", "brpop", "dequeued", "started", "generating", "generated", "finalized"}
    /\ MayFault(TRUE, pop)
    /\ LET g == _get_next_job(pop)
       IN /\ g[1] # NoJob
          /\ cur' = [cur EXCEPT ![l] = g[1]]
          /\ job_queue' = g[2]
          /\ redis_list' = g[3]
          /\ delivered' = Append(delivered, g[1].id)
    /\ wpc' = [wpc EXCEPT ![l] = "dequeued"]
    /\ result' = [result EXCEPT ![l] = NoResult]
    /\ wlog' = [wlog EXCEPT ![l] = <<>>]
    /\ faults' = faults + FaultsOf(TRUE, pop)
    /\ UNCHANGED <<config, clientVars, store, submitVars, is_running, cancelInfo>>

\* _get_next_job finds a job: lines 30-33
GetNextJob(l, pop) ==
    /\ AtGetNextJob(l)
    /\ MayFault(TRUE, pop)
    /\ LET g == _get_next_job(pop)
       IN /\ g[1] # NoJob
          /\ cur' = [cur EXCEPT ![l] = g[1]]
          /\ job_queue' = g[2]
          /\ redis_list' = g[3]
          /\ delivered' = Append(delivered, g[1].id)
    /\ wpc' = [wpc EXCEPT ![l] = "dequeued"]
    /\ result' = [result EXCEPT ![l] = NoResult]
    /\ wlog' = [wlog EXCEPT ![l] = <<>>]
    /\ faults' = faults + FaultsOf(TRUE, pop)
    /\ UNCHANGED <<config, clientVars, store, submitVars, is_running, cancelInfo>>

\* _get_next_job finds no job and the loop sleeps: lines 34-36
IdlePoll(l, pop) ==
    /\ AtGetNextJob(l)
    /\ MayFault(TRUE, pop)
    /\ LET g == _get_next_job(pop)
       IN /\ g[1] = NoJob
          /\ job_queue' = g[2]
          /\ redis_list' = g[3]
    /\ wpc' = [wpc EXCEPT ![l] = "sleeping"]
    /\ cur' = [cur EXCEPT ![l] = NoJob]
    /\ wlog' = [wlog EXCEPT ![l] = <<>>]
    /\ faults' = faults + FaultsOf(TRUE, pop)
    /\ UNCHANGED <<config, clientVars, store, submitVars, is_running, result,
                   delivered, cancelInfo>>

\* asyncio.sleep(5) is over: back to the loop condition
Wake(l) ==
    /\ Runs(l, "sleeping")
    /\ wpc' = [wpc EXCEPT ![l] = "loop"]
    /\ UNCHANGED <<config, clientVars, store, queueVars, submitVars, is_running, cur, result, wlog,
                   delivered, cancelInfo, faults>>

(***************************************************************************)
(* GenerationWorker: _process_job and _process_video_job.                  *)
(***************************************************************************)
\* line 125
ProcessStart(l, db_ok) ==
    /\ Runs(l, "dequeued")
    /\ Write(l, "processing", 10, "Starting generation", NoValue, NoResult, NoValue, db_ok)
    /\ wpc' = [wpc EXCEPT ![l] = "started"]
    /\ UNCHANGED <<config, clientVars, queueVars, submitVars, is_running, cur, result, delivered,
                   cancelInfo>>

\* Dispatch without the except clause of _process_job: the ValueError leaves
\* _process_job and start_worker
Dispatch_reraise(l, db_ok) ==
    /\ Runs(l, "started")
    /\ IF cur[l].type = "video"
        THEN /\ Write(l, "processing", 30, "Generating video", NoValue, NoResult, NoValue, db_ok)
             /\ wpc' = [wpc EXCEPT ![l] = "generating"]
        ELSE /\ wpc' = [wpc EXCEPT ![l] = "stopped"]
             /\ UNCHANGED <<store, wlog, faults>>
    /\ UNCHANGED <<config, clientVars, queueVars, submitVars, is_running, cur, result, delivered,
                   cancelInfo>>

\* lines 127-130, 172: a video job writes progress 30; any other type raises
\* ValueError, which lines 147-152 turn into the failed write
Dispatch(l, db_ok) ==
    /\ Runs(l, "started")
    /\ IF cur[l].type = "video"
        THEN /\ Write(l, "processing", 30, "Generating video", NoValue, NoResult, NoValue, db_ok)
             /\ wpc' = [wpc EXCEPT ![l] = "generating"]
        ELSE /\ Write(l, "failed", 0, "Processing error", NoValue, NoResult,
                      "Unknown job type: " \o cur[l].type, db_ok)
             /\ wpc' = [wpc EXCEPT ![l] = "loop"]
    /\ UNCHANGED <<config, clientVars, queueVars, submitVars, is_running, cur, result, delivered,
                   cancelInfo>>

\* ProviderCall whose except clause only logs the TypeError: no failed write
ProviderCall_swallow(l, outcome, db_ok) ==
    /\ Runs(l, "generating")
    /\ db_ok
    /\ IF DuplicateKeyword(cur[l].parameters)
        THEN /\ wpc' = [wpc EXCEPT ![l] = "loop"]
             /\ UNCHANGED <<result, store, wlog>>
        ELSE /\ result' = [result EXCEPT ![l] =
                    generate_video(providers, preferred_provider, velo_api_key,
                                   params_get(cur[l].parameters, "provider", NoValue), outcome)]
             /\ wpc' = [wpc EXCEPT ![l] = "generated"]
             /\ UNCHANGED <<store, wlog>>
    /\ UNCHANGED <<config, clientVars, queueVars, submitVars, is_running, cur, delivered, cancelInfo,
                   faults>>

\* lines 175-180: the provider call, which the loop awaits until the provider has
\* answered; its TypeError is raised at once and goes to lines 147-152
ProviderCall(l, outcome, db_ok) ==
    /\ Runs(l, "generating")
    /\ IF DuplicateKeyword(cur[l].parameters)
        THEN /\ Write(l, "failed", 0, "Processing error", NoValue, NoResult,
                      "generate_video() got multiple values for keyword argument", db_ok)
             /\ wpc' = [wpc EXCEPT ![l] = "loop"]
             /\ UNCHANGED result
        ELSE /\ result' = [result EXCEPT ![l] =
                    generate_video(providers, preferred_provider, velo_api_key,
                                   params_get(cur[l].parameters, "provider", NoValue), outcome)]
             /\ wpc' = [wpc EXCEPT ![l] = "generated"]
             /\ db_ok
             /\ UNCHANGED <<store, wlog, faults>>
    /\ UNCHANGED <<config, clientVars, queueVars, submitVars, is_running, cur, delivered, cancelInfo>>

\* line 183
Finalizing(l, db_ok) ==
    /\ Runs(l, "generated")
    /\ Write(l, "processing", 90, "Finalizing", NoValue, NoResult, NoValue, db_ok)
    /\ wpc' = [wpc EXCEPT ![l] = "finalized"]
    /\ UNCHANGED <<config, clientVars, queueVars, submitVars, is_running, cur, result, delivered,
                   cancelInfo>>

\* result.get(key, default)
result_get_error(r) == IF "error" \in r.keys THEN r.error ELSE "Unknown error"
result_get_video_url(r) == IF "video_url" \in r.keys THEN r.video_url ELSE NoValue

\* lines 133-145
TerminalWrite(l, db_ok) ==
    /\ Runs(l, "finalized")
    /\ IF result[l].success
        THEN Write(l, "completed", 100, "Generation completed",
                   result_get_video_url(result[l]), result[l], NoValue, db_ok)
        ELSE Write(l, "failed", 0, "Generation failed", NoValue, NoResult,
                   result_get_error(result[l]), db_ok)
    /\ wpc' = [wpc EXCEPT ![l] = "loop"]
    /\ result' = [result EXCEPT ![l] = NoResult]
    /\ UNCHANGED <<config, clientVars, queueVars, submitVars, is_running, cur, delivered,
                   cancelInfo>>

(***************************************************************************)
(* GenerationWorker.cancel_job.                                            *)
(***************************************************************************)
\* cancel_job calls made so far
CancelCalls == Cardinality({j \in JobIds : cancelInfo[j].calls > 0})

CancelUpdates == Updates("cancelled", NullInt, "cancelled", NoValue, NoValue, NoResult, NoValue)

\* update_generation_job returns False on an error of the store instead of raising,
\* so cancel_job returns True whenever it is called
cancel_job_returns(job_id, db_ok) == TRUE

CancelJob(job_id, db_ok) ==
    /\ job_id \in returned
    /\ CancelCalls < MaxCancels
    /\ AllSuspended
    /\ MayFault(db_ok, "ok")
    /\ faults' = faults + FaultsOf(db_ok, "ok")
    /\ store' = IF db_client THEN update_generation_job(store, job_id, CancelUpdates, db_ok)
                ELSE store
    /\ cancelInfo' = [cancelInfo EXCEPT ![job_id] =
            [calls |-> @.calls + 1,
             ret |-> cancel_job_returns(job_id, db_ok),
             queued |-> @.queued \/ (/\ job_id \in QueuedIds
                                     /\ job_id \notin DeliveredIds
                                     /\ store'[job_id].status = "cancelled")]]
    /\ UNCHANGED <<config, clientVars, queueVars, submitVars, workerVars>>

(***************************************************************************)
(* Specification.                                                          *)
(***************************************************************************)
\* the Sora adapter is a mock; the Velo adapter sees any response of its endpoint
\* (the script _process_video_job builds always holds the key "prompt")
Outcomes == {o \in [AllProviders -> ClientOutcomes] :
                o["sora"] = "mock" /\ o["velo"] \in VeloResponses}

\* the steps of one start_worker loop and of what it awaits
LoopStep(l) ==
    \/ SendBrpop(l)
    \/ \E pop \in PopOutcomes : GetNextJob(l, pop)
    \/ \E pop \in PopOutcomes : IdlePoll(l, pop)
    \/ Wake(l)
    \/ \E db_ok \in BOOLEAN : ProcessStart(l, db_ok)
    \/ \E db_ok \in BOOLEAN : Dispatch(l, db_ok)
    \/ \E outcome \in Outcomes, db_ok \in BOOLEAN : ProviderCall(l, outcome, db_ok)
    \/ \E db_ok \in BOOLEAN : Finalizing(l, db_ok)
    \/ \E db_ok \in BOOLEAN : TerminalWrite(l, db_ok)

Next ==
    \/ \E input \in JobInputs, db_ok \in BOOLEAN, push \in PushOutcomes :
            QueueGenerationJob(input, db_ok, push)
    \/ QueueGenerationJobReturns
    \/ \E l \in Loops : StartWorker(l)
    \/ StopWorker
    \/ \E l \in Loops : LoopExit(l)
    \/ \E l \in Loops : LoopStep(l)
    \/ \E job_id \in JobIds, db_ok \in BOOLEAN : CancelJob(job_id, db_ok)

Spec == Init /\ [][Next]_vars

Positions == {"init", "loop", "brpop", "sleeping", "dequeued", "started", "generating",
              "generated", "finalized", "stopped"}

TypeOK ==
    /\ wpc \in [Loops -> Positions]
    /\ Cardinality({l \in Loops : ~Suspended(l)}) <= 1
    /\ next_id \in 1..(MaxJobs + 1)
    /\ returned \subseteq JobIds
    /\ \A s \in pending : s.job.id \in JobIds \ returned /\ s.push \in PushOutcomes
    /\ \A j \in JobIds : store[j].status \in
            {NoValue, "queued", "processing", "completed", "failed", "cancelled"}

(***************************************************************************)
(* Workers that are started, never stopped, and keep taking steps.         *)
(***************************************************************************)
RunningNext ==
    \/ \E input \in JobInputs, db_ok \in BOOLEAN, push \in PushOutcomes :
            QueueGenerationJob(input, db_ok, push)
    \/ QueueGenerationJobReturns
    \/ \E l \in Loops : StartWorker(l)
    \/ \E l \in Loops : LoopStep(l)

\* start_worker is called, and the event loop runs every loop that can continue
RunningSpec ==
    /\ Init
    /\ [][RunningNext]_vars
    /\ WF_vars(StartWorker(1))
    /\ \A l \in Loops : SF_vars(LoopStep(l))

(***************************************************************************)
(* UnifiedVideoClient called directly: any set of registered providers,    *)
(* any preferred provider, with or without the Velo credential.            *)
(***************************************************************************)
\* the provider argument of generate_video; "runway" is a name no client has
RequestedProviders == {NoValue, "velo", "sora", "runway"}
PreferredProviders == {"auto", "velo", "sora"}

\* what the adapters do when invoked: either may raise; Sora otherwise mocks
RouterOutcomes == {o \in [AllProviders -> ClientOutcomes] :
                      /\ o["sora"] \in {"mock", "raise"}
                      /\ o["velo"] \in VeloCalls \cup {"raise"}}

RouterInit ==
    /\ redis_client = FALSE
    /\ db_client = TRUE
    /\ velo_api_key \in BOOLEAN
    /\ providers \in SUBSET AllProviders
    /\ preferred_provider \in PreferredProviders
    /\ RouterIdle
    /\ access_token = TRUE
    /\ resolves = "both"
    /\ PollIdle
    /\ store = [j \in JobIds |-> NoRecord]
    /\ job_queue = <<>>
    /\ redis_list = <<>>
    /\ next_id = 1
    /\ returned = {}
    /\ pending = {}
    /\ returned_before = [j \in JobIds |-> {}]
    /\ is_running = FALSE
    /\ wpc = [l \in Loops |-> "init"]
    /\ cur = [l \in Loops |-> NoJob]
    /\ result = [l \in Loops |-> NoResult]
    /\ wlog = [l \in Loops |-> <<>>]
    /\ delivered = <<>>
    /\ cancelInfo = [j \in JobIds |-> NoCancel]
    /\ faults = 0

RouterCalled == r_result # NoResult

\* the call that returned last, as the call before the next one to return
PrevAfter ==
    IF r_result = NoResult THEN r_prev
    ELSE [requested |-> r_requested, selected |-> r_selected,
          failed |-> ~r_result.success, called |-> TRUE]

\* a call of generate_video(script, provider = requested) returns to its caller;
\* outcome is what the adapters did, or would have done, in it
Returns(requested, selected, outcome) ==
    /\ r_requested' = requested
    /\ r_outcome' = outcome
    /\ r_selected' = selected
    /\ r_calls' = generate_video_calls(providers, preferred_provider, velo_api_key,
                                       requested, outcome)
    /\ r_result' = generate_video(providers, preferred_provider, velo_api_key,
                                  requested, outcome)
    /\ r_prev' = PrevAfter

\* the slot a new call takes
FreeCall(c) ==
    /\ r_frames[c].pc = "idle"
    /\ \A m \in Calls : m < c => r_frames[m].pc # "idle"

\* a router that remembers the provider that failed in the last call and selects
\* among the others
RouterEnter_avoid_failed(c, requested) ==
    /\ FreeCall(c)
    /\ LET selected_provider ==
                _select_provider(
                    IF PrevAfter.called /\ PrevAfter.failed
                        THEN providers \ {PrevAfter.selected} ELSE providers,
                    preferred_provider, velo_api_key, requested)
       IN IF selected_provider = NoValue
            THEN /\ \E outcome \in RouterOutcomes :
                        Returns(requested, selected_provider, outcome)
                 /\ UNCHANGED r_frames
            ELSE /\ r_frames' = [r_frames EXCEPT ![c] =
                        [pc |-> "awaiting", requested |-> requested,
                         selected |-> selected_provider, invoked |-> 1]]
                 /\ r_requested' = NoValue
                 /\ r_outcome' = NoOutcome
                 /\ r_selected' = NoValue
                 /\ r_calls' = <<>>
                 /\ r_result' = NoResult
                 /\ r_prev' = PrevAfter
    /\ UNCHANGED <<config, pollConfig, pollVars, store, queueVars, submitVars, workerVars,
                   cancelInfo, faults>>

\* a call of UnifiedVideoClient.generate_video(script, provider = requested) up to
\* its first await: lines 94-116. Without a provider it returns at once (96-101);
\* otherwise it invokes the adapter selected and is suspended until that answers
RouterEnter(c, requested) ==
    /\ FreeCall(c)
    /\ LET selected_provider ==
                _select_provider(providers, preferred_provider, velo_api_key, requested)
       IN IF selected_provider = NoValue
            THEN /\ \E outcome \in RouterOutcomes :
                        Returns(requested, selected_provider, outcome)
                 /\ UNCHANGED r_frames
            ELSE /\ r_frames' = [r_frames EXCEPT ![c] =
                        [pc |-> "awaiting", requested |-> requested,
                         selected |-> selected_provider, invoked |-> 1]]
                 /\ r_requested' = NoValue
                 /\ r_outcome' = NoOutcome
                 /\ r_selected' = NoValue
                 /\ r_calls' = <<>>
                 /\ r_result' = NoResult
                 /\ r_prev' = PrevAfter
    /\ UNCHANGED <<config, pollConfig, pollVars, store, queueVars, submitVars, workerVars,
                   cancelInfo, faults>>

\* the adapter a call is waiting for answers or raises: lines 116-136 and
\* _try_fallback 199-228. The call returns, or (automatic mode, the adapter
\* raised, a provider is left) it invokes the next adapter and is suspended
\* again. outcome is what the adapters do in this call; the adapters that have
\* answered before are the ones that made the call go on.
AdapterAnswers(c, outcome) ==
    /\ r_frames[c].pc = "awaiting"
    /\ LET f == r_frames[c]
           calls == generate_video_calls(providers, preferred_provider, velo_api_key,
                                         f.requested, outcome)
       IN /\ f.invoked <= Len(calls)
          /\ IF f.invoked < Len(calls)
                THEN /\ r_frames' = [r_frames EXCEPT ![c].invoked = @ + 1]
                     /\ UNCHANGED <<r_requested, r_outcome, r_selected, r_calls, r_result,
                                    r_prev>>
                ELSE /\ r_frames' = [r_frames EXCEPT ![c] = NoFrame]
                     /\ Returns(f.requested, f.selected, outcome)
    /\ UNCHANGED <<config, pollConfig, pollVars, store, queueVars, submitVars, workerVars,
                   cancelInfo, faults>>

RouterNext ==
    \/ \E c \in Calls, requested \in RequestedProviders : RouterEnter(c, requested)
    \/ \E c \in Calls, outcome \in RouterOutcomes : AdapterAnswers(c, outcome)

RouterSpec == RouterInit /\ [][RouterNext]_vars

(***************************************************************************)
(* check_operation_status called directly, against a Veo endpoint that     *)
(* resolves the qualified form of a handle, the short form, both or none.  *)
(***************************************************************************)
ShortHandle == "op-1"
QualifiedHandle ==
    "projects/your-project-id/locations/us-central1/publishers/google/models/"
        \o model_name \o "/operations/" \o ShortHandle
\* the same operation named under another model, as in the usage text (line 171)
OtherModelHandle ==
    "projects/your-project-id/locations/us-central1/publishers/google/models/"
        \o "veo-3.1-fast-generate-preview/operations/" \o ShortHandle
\* a handle in which the separator "/operations/" occurs twice, overlapping
RepeatedHandle == "a/operations/operations/" \o ShortHandle
\* the handle as the caller may pass it: short, qualified, a relative path, or
\* any other string
OperationIds ==
    {ShortHandle, QualifiedHandle, OtherModelHandle, "models/veo/operations/" \o ShortHandle,
     RepeatedHandle}
ResolveModes == {"both", "short_only", "qualified_only", "none"}

\* bodies of a 200 response: an operation still running, one done with videos,
\* one done with an error; and JSON that is no operation resource
OperationStates == {"running", "done_videos", "done_error"}
HttpResponse(status, body) == [status |-> status, body |-> body]
\* client.post raised (timeout, connection error)
RequestError == [status |-> 0, body |-> "request_error"]

\* what the endpoint may answer to a request for operationName
ServerResponses(operationName) ==
    (IF \/ operationName = ShortHandle /\ resolves \in {"both", "short_only"}
        \/ operationName = QualifiedHandle /\ resolves \in {"both", "qualified_only"}
        THEN {HttpResponse(200, b) : b \in OperationStates \cup {"not_an_operation"}}
        ELSE {HttpResponse(404, "not_found")})
    \cup {HttpResponse(500, "internal"), RequestError}

PollInit ==
    /\ redis_client = FALSE
    /\ db_client = TRUE
    /\ velo_api_key = TRUE
    /\ providers = AllProviders
    /\ preferred_provider = "auto"
    /\ RouterIdle
    /\ access_token \in BOOLEAN
    /\ resolves \in ResolveModes
    /\ PollIdle
    /\ store = [j \in JobIds |-> NoRecord]
    /\ job_queue = <<>>
    /\ redis_list = <<>>
    /\ next_id = 1
    /\ returned = {}
    /\ pending = {}
    /\ returned_before = [j \in JobIds |-> {}]
    /\ is_running = FALSE
    /\ wpc = [l \in Loops |-> "init"]
    /\ cur = [l \in Loops |-> NoJob]
    /\ result = [l \in Loops |-> NoResult]
    /\ wlog = [l \in Loops |-> <<>>]
    /\ delivered = <<>>
    /\ cancelInfo = [j \in JobIds |-> NoCancel]
    /\ faults = 0

PollFrame ==
    UNCHANGED <<config, routerVars, pollConfig, store, queueVars, submitVars, workerVars,
                cancelInfo, faults>>

\* lines 99-161 for the response held last: a 200 body is returned when it is an
\* operation resource (reading anything else raises, caught at line 159)
check_operation_returns(response) ==
    IF response.status = 200 /\ response.body \in OperationStates THEN response.body
    ELSE NoValue

\* lines 63-91: without a token the call returns at once; otherwise the first
\* request goes out with the qualified form
CheckStart(operation_id) ==
    /\ p_pc \in {"idle", "returned"}
    /\ p_operation_id' = operation_id
    /\ p_responses' = <<>>
    /\ IF ~access_token
        THEN /\ p_pc' = "returned"
             /\ p_requests' = <<>>
             /\ p_result' = NoValue
        ELSE /\ p_pc' = "first_sent"
             /\ p_requests' = <<full_operation_path(operation_id)>>
             /\ p_result' = NoValue
    /\ PollFrame

\* FirstResponse that repeats the request with the short form after any response
\* other than 200
FirstResponse_retry_any(response) ==
    /\ p_pc = "first_sent"
    /\ response \in ServerResponses(p_requests[1])
    /\ p_responses' = <<response>>
    /\ IF response.status # 200 /\ response # RequestError
        THEN /\ p_requests' = Append(p_requests, operation_name(p_operation_id))
             /\ p_pc' = "second_sent"
             /\ UNCHANGED p_result
        ELSE /\ p_result' = check_operation_returns(response)
             /\ p_pc' = "returned"
             /\ UNCHANGED p_requests
    /\ UNCHANGED p_operation_id
    /\ PollFrame

\* lines 91-97 and on: a 404 sends the second request with the short form; any
\* other response is the final one
FirstResponse(response) ==
    /\ p_pc = "first_sent"
    /\ response \in ServerResponses(p_requests[1])
    /\ p_responses' = <<response>>
    /\ IF response.status = 404
        THEN /\ p_requests' = Append(p_requests, operation_name(p_operation_id))
             /\ p_pc' = "second_sent"
             /\ UNCHANGED p_result
        ELSE /\ p_result' = check_operation_returns(response)
             /\ p_pc' = "returned"
             /\ UNCHANGED p_requests
    /\ UNCHANGED p_operation_id
    /\ PollFrame

\* lines 97-161: the second response is the final one
SecondResponse(response) ==
    /\ p_pc = "second_sent"
    /\ response \in ServerResponses(p_requests[2])
    /\ p_responses' = Append(p_responses, response)
    /\ p_result' = check_operation_returns(response)
    /\ p_pc' = "returned"
    /\ UNCHANGED <<p_operation_id, p_requests>>
    /\ PollFrame

AllResponses ==
    {HttpResponse(200, b) : b \in OperationStates \cup {"not_an_operation"}}
        \cup {HttpResponse(404, "not_found"), HttpResponse(500, "internal"), RequestError}

PollNext ==
    \/ \E operation_id \in OperationIds : CheckStart(operation_id)
    \/ \E response \in AllResponses : FirstResponse(response)
    \/ \E response \in AllResponses : SecondResponse(response)

PollSpec == PollInit /\ [][PollNext]_vars

(***************************************************************************)
(* Properties.                                                             *)
(***************************************************************************)
Terminal == {"completed", "failed", "cancelled"}
MidFlight == {"started", "generating", "generated", "finalized"}
\* the last write loop l has issued for the job it holds
LastWrite(l) == wlog[l][Len(wlog[l])]

\* C1: cancellation is absorbing: once the stored status of a job is cancelled, no
\* later step (in particular no write of the worker) changes it.
C1_CancellationAbsorbing ==
    [][\A j \in JobIds :
        store[j].status = "cancelled" => store'[j].status = "cancelled"]_vars

\* C2: a job cancelled while it was still queued stays cancelled, and the worker
\* that dequeues it later skips it: no status write and no provider call for it.
C2_CancelledQueuedJobSkipped ==
    \A j \in JobIds :
        cancelInfo[j].queued =>
            /\ store[j].status = "cancelled"
            /\ \A l \in Loops : \A i \in 1..Len(wlog[l]) : wlog[l][i].job # j
            /\ \A l \in Loops : ~(cur[l].id = j /\ wpc[l] \in MidFlight)

\* C3: completed and failed are terminal: a job whose stored status is completed
\* or failed never changes status again, whatever operation follows (cancel_job
\* included).
C3_TerminalStatusFinal ==
    [][\A j \in JobIds :
        store[j].status \in {"completed", "failed"}
            => store'[j].status = store[j].status]_vars

\* C4: the progress values the worker writes during one processing attempt, the
\* terminal write included, are non-decreasing.
C4_ProgressNonDecreasing ==
    \A l \in Loops :
        \A i \in 1..(Len(wlog[l]) - 1) : wlog[l][i].progress <= wlog[l][i + 1].progress

\* C5: in every job record result_url is set iff the status is completed,
\* error_message is set iff the status is failed, and never both are set.
C5_ResultAndErrorMatchStatus ==
    \A j \in JobIds :
        store[j].exists =>
            /\ (store[j].result_url # NoValue) <=> (store[j].status = "completed")
            /\ (store[j].error_message # NoValue) <=> (store[j].status = "failed")
            /\ ~(store[j].result_url # NoValue /\ store[j].error_message # NoValue)

\* C6: a video job submitted with the parameters map of the HTTP endpoint
\* (provider, quality and duration present) and no failing provider ends with the
\* terminal write completed, progress 100 and a non-empty result_url.
C6_ApiJobCompletes ==
    \A l \in Loops :
        (/\ cur[l].type = "video"
         /\ cur[l].parameters = ApiParameters(NoValue)
         /\ wlog[l] # <<>>
         /\ ~("error" \in result[l].keys))
            => (LastWrite(l).status \in Terminal
                    => /\ LastWrite(l).status = "completed"
                       /\ LastWrite(l).progress = 100
                       /\ LastWrite(l).result_url # NoValue)

\* C7: no job stays in processing: a job whose stored status is processing is in
\* the hands of the worker (mid-flight) or still waits in the queue for the
\* worker; once the worker is done with it, its stored status is terminal.
C7_NoJobStuckInProcessing ==
    \A j \in JobIds :
        store[j].status = "processing" =>
            \/ \E l \in Loops : cur[l].id = j /\ wpc[l] \in {"dequeued"} \cup MidFlight
            \/ j \in QueuedIds

\* the error the processing of job raises, NoValue if it raises none
RaisedBy(job) ==
    IF job.type # "video" THEN "Unknown job type: " \o job.type
    ELSE IF DuplicateKeyword(job.parameters)
        THEN "generate_video() got multiple values for keyword argument"
    ELSE NoValue

\* loop l has issued every write of the processing run of a job that raises
RaisedAndWritten(l) ==
    /\ cur[l] # NoJob
    /\ RaisedBy(cur[l]) # NoValue
    /\ Len(wlog[l]) >= (IF cur[l].type = "video" THEN 3 ELSE 2)

\* C8: a job whose processing raises gets the write failed with the error's
\* message, after which the loop goes on with the next dequeue; a loop ends
\* only in a step that finds is_running false.
C8_WorkerSurvivesJobFailure ==
    [][\A l \in Loops :
        /\ (wpc[l] # "stopped" /\ wpc'[l] = "stopped") => ~is_running
        /\ RaisedAndWritten(l)' =>
               /\ LastWrite(l)'.status = "failed"
               /\ LastWrite(l)'.error_message = RaisedBy(cur'[l])
               /\ LastWrite(l)'.job = cur'[l].id
               /\ wpc'[l] \notin {"dequeued"} \cup MidFlight]_vars

\* one loop has written failed for a job that raised and has gone on to dequeue
\* the next job
C8_Witness ==
    /\ Len(delivered) = 2
    /\ is_running
    /\ \E l \in Loops :
        /\ wpc[l] = "dequeued"
        /\ cur[l].id = delivered[2]
        /\ \A m \in Loops \ {l} : wpc[m] = "init"
    /\ store[delivered[1]].status = "failed"
    /\ store[delivered[1]].error_message = "Unknown job type: image"

\* C9: enqueue never loses a job: at the moment queue_generation_job returns a
\* job id, that job is held by the Redis list or the process-local list, or has
\* already been delivered by _get_next_job.
C9_EnqueueNeverLosesJob ==
    [][\A j \in returned' \ returned : j \in QueuedIds' \/ j \in DeliveredIds']_vars

\* C10: with a Redis client configured, queue_generation_job never returns the id
\* of a job it has placed in the process-local list.
C10_NoSilentLocalFallback ==
    redis_client => \A j \in returned : j \notin SeqIds(job_queue)

\* C11: delivery is FIFO on enqueue order: when a job B is delivered, every job A
\* whose queue_generation_job call had returned before the call of B started
\* has been delivered earlier.
C11_DeliveryIsFifo ==
    \A i \in 1..Len(delivered) :
        \A a \in returned_before[delivered[i]] :
            \E k \in 1..(i - 1) : delivered[k] = a

\* C12: at-most-once delivery: no job id is returned by _get_next_job twice.
C12_AtMostOnceDelivery ==
    \A i, k \in 1..Len(delivered) : i # k => delivered[i] # delivered[k]

(***************************************************************************)
(* Properties of UnifiedVideoClient (RouterSpec).                          *)
(***************************************************************************)
\* provider p, invoked in the last call, returned a result with success = true
Succeeds(p) ==
    ~client_raises(p, r_outcome)
        /\ client_generate_video(p, velo_api_key, r_outcome).success
\* registered and, for Velo, holding its credential (Sora runs as a mock)
Available(p) == p \in providers /\ (p = "velo" => velo_api_key)

\* C13: in automatic mode, when the provider chosen first fails (it raises or it
\* returns success = false), the remaining providers of the fallback order are
\* tried once each, in order, skipping the failed one, up to the first success.
C13_AutomaticFallbackOnFailure ==
    (RouterCalled /\ r_requested = NoValue /\ r_calls # <<>> /\ ~Succeeds(r_calls[1])) =>
        LET rest == SelectSeqIn(fallback_order, 1, providers \ {r_calls[1]})
            tried == Tail(r_calls)
        IN /\ Len(tried) <= Len(rest)
           /\ \A i \in 1..Len(tried) : tried[i] = rest[i]
           /\ \A i \in 1..(Len(tried) - 1) : ~Succeeds(tried[i])
           /\ Len(tried) < Len(rest) => (tried # <<>> /\ Succeeds(tried[Len(tried)]))

\* C14: an explicit, registered provider whose call fails is the only provider
\* invoked, and the result is a failure naming it.
C14_ExplicitFailureNoFallback ==
    (RouterCalled /\ r_requested \in providers /\ ~Succeeds(r_requested)) =>
        /\ r_calls = <<r_requested>>
        /\ ~r_result.success
        /\ "provider" \in r_result.keys
        /\ r_result.provider = r_requested

\* a call naming velo, with sora registered too, in which velo raised
C14_Witness ==
    /\ RouterCalled
    /\ r_requested = "velo"
    /\ providers = AllProviders
    /\ client_raises("velo", r_outcome)
    /\ r_calls = <<"velo">>
    /\ ~r_result.success

\* C15: a call that names a provider which is not registered, or which lacks its
\* credential, invokes no provider and returns a failure.
C15_UnavailableExplicitFails ==
    (RouterCalled /\ r_requested # NoValue /\ ~Available(r_requested)) =>
        /\ r_calls = <<>>
        /\ ~r_result.success

\* provider p's own error in the last call
OwnError(p) ==
    IF client_raises(p, r_outcome) THEN client_exception(p)
    ELSE client_generate_video(p, velo_api_key, r_outcome).error

\* C16: when several providers were attempted and all failed, the error of the
\* result names every attempted provider and carries that provider's own error.
C16_AggregatedFailureEnumeratesAll ==
    (RouterCalled /\ Len(r_calls) > 1 /\ ~r_result.success) =>
        \A i \in 1..Len(r_calls) :
            /\ Contains(r_result.error, r_calls[i])
            /\ Contains(r_result.error, OwnError(r_calls[i]))

\* the selection the stated priority gives: explicit if available, else the
\* preferred provider if available, else the first available of [velo, sora]
StatedSelection(requested) ==
    IF requested # NoValue /\ Available(requested) THEN requested
    ELSE IF preferred_provider # "auto" /\ Available(preferred_provider)
        THEN preferred_provider
    ELSE FirstWith(fallback_order, 1, {p \in providers : Available(p)})

\* C17: _select_provider returns the selection of the stated priority, a provider
\* without its credential counting as unavailable at each step.
C17_SelectionFollowsPriority ==
    RouterCalled => r_selected = StatedSelection(r_requested)

\* the provider that registration, credential, preferred provider and explicit
\* argument determine, as a table
SelectionTable(requested) ==
    IF requested \in providers THEN requested
    ELSE IF preferred_provider \in providers THEN preferred_provider
    ELSE IF providers = {} THEN NoValue
    ELSE IF "velo" \in providers /\ (velo_api_key \/ "sora" \notin providers) THEN "velo"
    ELSE "sora"

C19_UnavailableFirstReportsFallback ==
    (/\ RouterCalled
     /\ r_requested = NoValue
     /\ preferred_provider = "auto"
     /\ ~Available("velo")
     /\ "sora" \in providers
     /\ Succeeds("sora")) =>
        /\ r_result.success
        /\ "selected_provider" \in r_result.keys /\ r_result.selected_provider = "sora"
        /\ "fallback_used" \in r_result.keys /\ r_result.fallback_used

\* C20: every result of generate_video carries the provider used, a boolean
\* fallback_used and a selection reason.
C20_ResultCarriesSelectionMetadata ==
    RouterCalled =>
        {"selected_provider", "fallback_used", "provider_selection_reason"}
            \subseteq r_result.keys

\* C22: a Veo response that matches neither payload shape (inline base64 video,
\* remote URI) never yields a success result carrying a video reference.
C22_UnrecognizedPayloadIsError ==
    (RouterCalled /\ velo_api_key /\ r_calls = <<"velo">>
        /\ r_outcome["velo"] \notin {"predictions_video", "legacy_url",
                                      "legacy_empty_url", "legacy_null_url"}) =>
            ~(r_result.success /\ r_result.keys \cap {"video_url", "video_path"} # {})

(***************************************************************************)
(* Properties of the worker, continued (Spec).                             *)
(***************************************************************************)
TerminalWrites == {"completed", "failed"}
\* positions of the terminal writes among the writes of loop l for the job held
TerminalAt(l) == {i \in 1..Len(wlog[l]) : wlog[l][i].status \in TerminalWrites}

\* C23: when the worker has issued the terminal write of a job, at least three
\* writes with status processing precede it (start, provider call, finalizing).
C23_ThreeProgressWritesBeforeTerminal ==
    \A l \in Loops :
        (wlog[l] # <<>> /\ LastWrite(l).status \in TerminalWrites) =>
            /\ Len(wlog[l]) >= 4
            /\ \A i \in 1..3 : wlog[l][i].status = "processing"

\* C24: a job for which the worker has just written failed is not delivered to
\* the worker for another processing attempt.
C24_FailedJobNotProcessedAgain ==
    [][\A j \in JobIds :
        store[j].status = "failed" =>
            ~(delivered' # delivered /\ delivered'[Len(delivered')] = j)]_vars

\* C25: queue_generation_job rejects a job kind other than video: no such job
\* is queued and no record of it is created.
C25_MalformedSubmissionRejected ==
    /\ \A i \in 1..Len(job_queue) : job_queue[i].type = "video"
    /\ \A i \in 1..Len(redis_list) : json_loads(redis_list[i]).type = "video"

\* the writes of one processing run of loop l, by progress: 10, 30, 90 and the
\* terminal write, which may come after any of them
OrderedWrites(l) ==
    /\ \A i \in 1..Len(wlog[l]) : wlog[l][i].job = cur[l].id
    /\ \A i \in 1..Len(wlog[l]) :
          \/ i = 1 /\ wlog[l][i].status = "processing" /\ wlog[l][i].progress = 10
          \/ i = 2 /\ wlog[l][i].status = "processing" /\ wlog[l][i].progress = 30
          \/ i = 3 /\ wlog[l][i].status = "processing" /\ wlog[l][i].progress = 90
          \/ i > 1 /\ i = Len(wlog[l]) /\ wlog[l][i].status \in TerminalWrites

\* C26: a start_worker loop takes the next job only after the terminal write of
\* the job it holds, and the writes of each of its processing runs are in the
\* order start, provider call, finalizing, terminal, all for the job held.
C26_OneJobAtATimeInOrder ==
    [][\A l \in Loops :
        /\ (delivered' # delivered /\ wpc'[l] = "dequeued") =>
               (wlog[l] = <<>> \/ LastWrite(l).status \in TerminalWrites)
        /\ OrderedWrites(l)']_vars

\* one loop took both jobs, and the second has gone through all four writes
C26_Witness ==
    /\ Len(delivered) = 2
    /\ \E l \in Loops :
        /\ Len(wlog[l]) = 4
        /\ wlog[l][4].status = "completed"
        /\ wlog[l][1].job = delivered[2]
        /\ \A m \in Loops \ {l} : wpc[m] = "init"

\* C28: each processing run of a delivered job has exactly one terminal write,
\* and no write follows it.
C28_ExactlyOneTerminalWrite ==
    [][\A l \in Loops :
        /\ (wpc[l] \in {"dequeued"} \cup MidFlight /\ wpc'[l] \notin {"dequeued"} \cup MidFlight)
                => (wlog'[l] # <<>> /\ TerminalAt(l)' = {Len(wlog'[l])})
        /\ wpc'[l] \in {"dequeued"} \cup MidFlight => TerminalAt(l)' = {}]_vars

\* a processing run that ended in the except branch of _process_job
C28_Witness ==
    \E l \in Loops :
        /\ wpc[l] = "loop"
        /\ Len(wlog[l]) = 3
        /\ wlog[l][3].status = "failed"
        /\ DuplicateKeyword(cur[l].parameters)

\* C29: with a store configured, every job that is queued or was delivered has
\* a record in the store.
C29_QueuedJobHasRecord ==
    db_client => \A j \in QueuedIds \cup DeliveredIds : store[j].exists

(***************************************************************************)
(* Properties of check_operation_status (PollSpec).                        *)
(***************************************************************************)
LastResponse == p_responses[Len(p_responses)]

\* positions at which sep occurs in s
Occurrences(s, sep) == {i \in 1..(Len(s) - Len(sep) + 1) : SubSeq(s, i, i + Len(sep) - 1) = sep}
\* h is a form of the handle of the operation: the bare id, or a resource path
\* that ends in "/operations/" and the id and holds that separator once
NamesOperation(h) ==
    \/ h = ShortHandle
    \/ /\ EndsWith(h, "/operations/" \o ShortHandle)
       /\ Cardinality(Occurrences(h, "/operations/")) = 1

C30_QueuedJobEventuallyDelivered ==
    \A j \in JobIds : (j \in returned) ~> (j \in DeliveredIds)

====
